---- MODULE Spec2Model ----
(***************************************************************************)
(* Model of android/app/src/main/cpp/llama_jni.cpp: the JNI bridge to      *)
(* llama.cpp.  The file-scope globals are the state; every exported JNI    *)
(* entry point is a sequence of steps of the calling thread, labelled with *)
(* the source line the thread is about to execute.                         *)
(***************************************************************************)
EXTENDS Integers, Sequences, FiniteSets, TLC

\* ---------------------------------------------------------------- bounds
MaxHandles == 4     \* model/context constructions that may succeed
MaxTokens  == 2     \* largest maxTokens argument of generate
MaxPrompt  == 1     \* largest token count llama_tokenize reports

\* Host threads calling into the bridge: a caller and one concurrent caller.
Threads == {1, 2}
NULL    == 0        \* nullptr

\* ------------------------------------------------- the inference library
\* Token ids the sampler can return: 0 is the end-of-generation token,
\* 1 renders to no bytes, 2 and 3 render to one piece each.
Tokens == 0..3

llama_token_is_eog(tok) == tok = 0

\* The bytes llama_token_to_piece writes for tok (the number n it returns is
\* the length; n <= 0 leaves the output untouched).
llama_token_to_piece(tok) ==
  CASE tok = 2 -> <<"a">>
    [] tok = 3 -> <<"b">>
    [] OTHER   -> <<>>

\* llama_n_vocab(m) of a live model: the models loaded here all have the
\* same vocabulary.
llama_n_vocab(m) == IF m # 0 THEN 32000 ELSE 0

\* ----------------------------------------------------------- JNI strings
ErrNotLoaded      == <<"[Error: Model not loaded]">>
ErrNotInitialized == <<"[Error: Context not initialized]">>
ErrTokenization   == <<"[Error: Tokenization failed]">>
ErrDecoding       == <<"[Error: Decoding failed]">>
ErrorSentinels    == {ErrNotLoaded, ErrNotInitialized, ErrTokenization, ErrDecoding}
StubPrefix        == <<"[Stub Response] Model not compiled. Your prompt was: ">>
StubSuffix        == <<"...">>
StubPromptChars   == 50
InfoEmpty         == <<"{}">>
InfoStub          == <<"{\"stub\":true,\"loaded\":false}">>
\* snprintf(info, 256, "{\"vocab_size\":%d,\"context_size\":%d,\"loaded\":true}", v, c)
InfoObject(v, c)  == <<"{\"vocab_size\":", v, ",\"context_size\":", c, ",\"loaded\":true}">>
\* What %d prints for a value read through a dangling handle.
Garbage           == "?"
\* Defaults of nativeLoadModel.
DefaultCtx        == 2048
DefaultThreads    == 4
\* llama_batch_init(512, 0, 1): the number of tokens the batch has room for.
BatchCapacity     == 512

\* Prompts the host passes: sequences of characters (a jstring).  LongPrompt
\* is 52 ASCII characters, WidePrompt is 26 characters of two bytes each,
\* HugePrompt is as many ASCII characters as the decode batch has slots.
LongPrompt == [i \in 1..(StubPromptChars + 2) |-> IF i % 2 = 1 THEN "x" ELSE "y"]
WidePrompt == [i \in 1..((StubPromptChars + 2) \div 2) |-> "e-acute"]
HugePrompt == [i \in 1..BatchCapacity |-> "z"]
Prompts    == {<<>>, <<"h", "i">>, LongPrompt, WidePrompt, HugePrompt}

\* The bytes of one character in the (modified) UTF-8 encoding.
Utf8(c) == IF c = "e-acute" THEN <<"0xC3", "0xA9">> ELSE <<c>>

\* env->GetStringUTFChars(s, nullptr): the bytes of s; strlen is their count.
RECURSIVE GetStringUTFChars(_)
GetStringUTFChars(s) ==
  IF Len(s) = 0 THEN <<>>
  ELSE IF Len(s) = 1 THEN Utf8(s[1])
  ELSE LET h == Len(s) \div 2 IN
       GetStringUTFChars(SubSeq(s, 1, h)) \o GetStringUTFChars(SubSeq(s, h + 1, Len(s)))

\* Substr50 with an inclusive upper index.
Substr50Inclusive(b) ==
  IF Len(b) <= StubPromptChars THEN b ELSE SubSeq(b, 1, StubPromptChars + 1)

\* std::string(prompt_cstr).substr(0, 50): the first 50 bytes.
Substr50(b) == IF Len(b) <= StubPromptChars THEN b ELSE SubSeq(b, 1, StubPromptChars)

\* What a call returned to the host (a string as the bytes handed to
\* NewStringUTF).
NoRet      == [kind |-> "none",   ok |-> FALSE, text |-> <<>>]
VoidRet    == [kind |-> "void",   ok |-> TRUE,  text |-> <<>>]
BoolRet(b) == [kind |-> "bool",   ok |-> b,     text |-> <<>>]
StrRet(s)  == [kind |-> "string", ok |-> TRUE,  text |-> s]

VARIABLES
  mode,                 \* "real" or "stub": the LLAMA_STUB compile-time switch
  backend_ready,        \* llama_backend_init() done and not yet freed
  g_model,              \* llama_model*   (NULL or a handle)
  g_ctx,                \* llama_context* (NULL or a handle)
  g_model_loaded,       \* std::atomic<bool>
  g_cancel_generation,  \* std::atomic<bool>
  g_mutex,              \* 0 when free, else the thread that owns it
  pc,                   \* per thread: the line it is about to execute
  loc,                  \* per thread: arguments and locals of its call
  ret,                  \* per thread: what its last call returned
  heap                  \* the library's objects: live handles, next handle

vars == <<mode, backend_ready, g_model, g_ctx, g_model_loaded,
          g_cancel_generation, g_mutex, pc, loc, ret, heap>>

globals == <<g_model, g_ctx, g_model_loaded, g_cancel_generation>>

\* Arguments are passed by value and never change during a call; the model
\* draws each where the code first reads it.
LocInit ==
  [op         |-> "none",
   prompt     |-> <<>>,     \* generate argument (held by the stub build)
   maxTokens  |-> 0,        \* generate argument
   n_cur      |-> 0,
   n_gen      |-> 0,
   result     |-> <<>>,     \* std::string result
   sampled    |-> <<>>,     \* tokens converted to pieces so far
   exit       |-> "none",   \* why the loop was left
   postCancel |-> -1,       \* pieces appended since a cancel write, -1: none
   lateCancel |-> FALSE,    \* a cancel was written after the reset of line 157
   m          |-> 0,        \* get_model_info: g_model as read at line 323
   c          |-> 0,        \* get_model_info: g_ctx as read by the test of line 328
   n_vocab    |-> "",       \* get_model_info: n_vocab, printed
   chars      |-> "none",   \* the GetStringUTFChars copy: none, held, released
   batch      |-> "none",   \* the llama_batch: none, held, released
   inFree     |-> FALSE]    \* unload called from nativeFree

HeapInit == [models |-> {}, ctxs |-> {}, next |-> 1]

Init ==
  /\ mode \in {"real", "stub"}
  /\ backend_ready = FALSE
  /\ g_model = NULL
  /\ g_ctx = NULL
  /\ g_model_loaded = FALSE
  /\ g_cancel_generation = FALSE
  /\ g_mutex = 0
  /\ pc = [t \in Threads |-> "idle"]
  /\ loc = [t \in Threads |-> LocInit]
  /\ ret = [t \in Threads |-> NoRet]
  /\ heap = HeapInit

\* ------------------------------------------------------------- helpers
Goto(t, l)     == pc' = [pc EXCEPT ![t] = l]
\* Thread t faults at l: the process dies and every other thread with it.
Die(t, l)      == pc' = [u \in Threads |-> IF u = t THEN l ELSE "killed"]
\* The process has died of a memory fault.
Faulted        == \E t \in Threads : pc[t] \in {"gen_fault", "info_fault"}
\* ReleaseStringUTFChars / llama_batch_free on a resource in state x.
Release(x) == CASE x = "held"     -> "released"
                [] x = "released" -> "twice"
                [] OTHER          -> "unowned"
\* return r: the call's locals die with its frame; what is kept of them is
\* the state c, b in which the call left its string copy and its batch.
Leave(t, r, c, b) == /\ pc' = [pc EXCEPT ![t] = "idle"]
                     /\ ret' = [ret EXCEPT ![t] = r]
                     /\ loc' = [loc EXCEPT ![t] = [LocInit EXCEPT !.chars = c, !.batch = b]]
\* return r, releasing nothing.
Return(t, r)   == Leave(t, r, loc[t].chars, loc[t].batch)
\* ReleaseStringUTFChars, then return r.
ReturnReleased(t, r) == Leave(t, r, Release(loc[t].chars), loc[t].batch)
Begin(t, l, r) == /\ pc[t] = "idle"
                  /\ pc' = [pc EXCEPT ![t] = l]
                  /\ loc' = [loc EXCEPT ![t] = r]
                  /\ ret' = [ret EXCEPT ![t] = NoRet]

\* std::lock_guard<std::mutex> lock(g_mutex): blocks until the mutex is free.
Lock(t)   == g_mutex = 0 /\ g_mutex' = t
\* ~lock_guard at return.
Unlock(t) == g_mutex' = 0

\* llama_free(c) / llama_free_model(m): the object is gone.
FreeCtx(h, c)   == [h EXCEPT !.ctxs = {x \in @ : x.id # c}]
FreeModel(h, m) == [h EXCEPT !.models = @ \ {m}]
\* A successful llama_load_model_from_file / llama_new_context_with_model.
NewModel(h)        == [h EXCEPT !.models = @ \cup {h.next}, !.next = @ + 1]
\* (args: the nCtx, nThreads the host passed to the load that built it.)
NewCtx(h, m, p, a) == [h EXCEPT !.ctxs = @ \cup {[id |-> h.next, model |-> m,
                                                  params |-> p, args |-> a]},
                                !.next = @ + 1]
CanConstruct       == heap.next <= MaxHandles

\* ------------------------------------------------------------ nativeInit
CallInit(t) == /\ Begin(t, "init_51", [LocInit EXCEPT !.op = "init"])
               /\ UNCHANGED <<mode, backend_ready, globals, g_mutex, heap>>

\* llama_backend_init(); return JNI_TRUE  (stub: return JNI_TRUE)
InitBackend(t) ==
  /\ pc[t] = "init_51"
  /\ backend_ready' = IF mode = "real" THEN TRUE ELSE backend_ready
  /\ Return(t, BoolRet(TRUE))
  /\ UNCHANGED <<mode, globals, g_mutex, heap>>

\* ------------------------------------------------------- nativeLoadModel
\* (nCtx, nThreads) pairs the host passes.
LoadArgs == {<<0, 0>>, <<1024, 2>>, <<-1, -3>>}

CallLoad(t) ==
  /\ Begin(t, "load_76", [LocInit EXCEPT !.op = "load"])
  /\ UNCHANGED <<mode, backend_ready, globals, g_mutex, heap>>

\* lines 76-78: take the mutex and copy the path; the stub build continues
\* at line 123.
LoadLock(t) ==
  /\ pc[t] = "load_76"
  /\ Lock(t)
  /\ loc' = [loc EXCEPT ![t].chars = "held"]
  /\ Goto(t, IF mode = "real" THEN "load_83" ELSE "load_123")
  /\ UNCHANGED <<mode, backend_ready, globals, ret, heap>>

\* LoadFreeCtx without the release of the old context.
LoadFreeCtxSkipped(t) ==
  /\ pc[t] = "load_83"
  /\ Goto(t, "load_87")
  /\ UNCHANGED <<mode, backend_ready, globals, g_mutex, loc, ret, heap>>

\* lines 83-86: if (g_ctx != nullptr) { llama_free(g_ctx); g_ctx = nullptr; }
LoadFreeCtx(t) ==
  /\ pc[t] = "load_83"
  /\ IF g_ctx # NULL
       THEN heap' = FreeCtx(heap, g_ctx) /\ g_ctx' = NULL
       ELSE UNCHANGED <<heap, g_ctx>>
  /\ Goto(t, "load_87")
  /\ UNCHANGED <<mode, backend_ready, g_model, g_model_loaded, g_cancel_generation,
                 g_mutex, loc, ret>>

\* LoadFreeModel without the llama_free_model call.
LoadFreeModelLeak(t) ==
  /\ pc[t] = "load_87"
  /\ g_model' = NULL
  /\ Goto(t, "load_97")
  /\ UNCHANGED <<mode, backend_ready, g_ctx, g_model_loaded, g_cancel_generation,
                 g_mutex, loc, ret, heap>>

\* lines 87-90: if (g_model != nullptr) { llama_free_model(g_model); g_model = nullptr; }
LoadFreeModel(t) ==
  /\ pc[t] = "load_87"
  /\ IF g_model # NULL
       THEN heap' = FreeModel(heap, g_model) /\ g_model' = NULL
       ELSE UNCHANGED <<heap, g_model>>
  /\ Goto(t, "load_97")
  /\ UNCHANGED <<mode, backend_ready, g_ctx, g_model_loaded, g_cancel_generation,
                 g_mutex, loc, ret>>

\* lines 93-102: g_model = llama_load_model_from_file(...); on nullptr
\* release the path and return JNI_FALSE.
LoadModel(t) ==
  /\ pc[t] = "load_97"
  /\ \/ /\ CanConstruct
        /\ g_model' = heap.next
        /\ heap' = NewModel(heap)
        /\ Goto(t, "load_105")
        /\ UNCHANGED <<g_mutex, ret, loc>>
     \/ /\ g_model' = NULL
        /\ ReturnReleased(t, BoolRet(FALSE))
        /\ Unlock(t)
        /\ UNCHANGED heap
  /\ UNCHANGED <<mode, backend_ready, g_ctx, g_model_loaded, g_cancel_generation>>

\* CtxParams keeping a zero nCtx instead of defaulting it.
CtxParamsZeroKept(nCtx, nThreads) ==
  [n_ctx           |-> IF nCtx >= 0 THEN nCtx ELSE 2048,
   n_threads       |-> IF nThreads > 0 THEN nThreads ELSE 4,
   n_threads_batch |-> IF nThreads > 0 THEN nThreads ELSE 4]

\* lines 105-108: the context parameters load resolves from its arguments.
CtxParams(nCtx, nThreads) ==
  [n_ctx           |-> IF nCtx > 0 THEN nCtx ELSE 2048,
   n_threads       |-> IF nThreads > 0 THEN nThreads ELSE 4,
   n_threads_batch |-> IF nThreads > 0 THEN nThreads ELSE 4]

\* lines 105-118: g_ctx = llama_new_context_with_model(...); on nullptr free
\* the model, clear g_model, release the path and return JNI_FALSE.
LoadCtx(t) ==
  /\ pc[t] = "load_105"
  /\ \/ /\ CanConstruct
        /\ g_ctx' = heap.next
        /\ \E a \in LoadArgs : heap' = NewCtx(heap, g_model, CtxParams(a[1], a[2]), a)
        /\ Goto(t, "load_120")
        /\ UNCHANGED <<g_model, g_mutex, ret, loc>>
     \/ /\ g_ctx' = NULL
        /\ heap' = FreeModel(heap, g_model)
        /\ g_model' = NULL
        /\ ReturnReleased(t, BoolRet(FALSE))
        /\ Unlock(t)
  /\ UNCHANGED <<mode, backend_ready, g_model_loaded, g_cancel_generation>>

\* lines 120-128 (real) and 123-128 (stub): g_model_loaded = true; release
\* the path; return JNI_TRUE.
LoadDone(t) ==
  /\ pc[t] \in {"load_120", "load_123"}
  /\ g_model_loaded' = TRUE
  /\ ReturnReleased(t, BoolRet(TRUE))
  /\ Unlock(t)
  /\ UNCHANGED <<mode, backend_ready, g_model, g_ctx, g_cancel_generation, heap>>

\* ----------------------------------------------------- nativeUnloadModel
CallUnload(t) == /\ Begin(t, "unload_265", [LocInit EXCEPT !.op = "unload"])
                 /\ UNCHANGED <<mode, backend_ready, globals, g_mutex, heap>>

\* UnloadLock without the lock_guard of line 265.
UnloadLockNoWait(t) ==
  /\ pc[t] = "unload_265"
  /\ g_mutex' = t
  /\ Goto(t, IF mode = "real" THEN "unload_270" ELSE "unload_280")
  /\ UNCHANGED <<mode, backend_ready, globals, loc, ret, heap>>

\* line 265: take the mutex; the stub build continues at line 280.
UnloadLock(t) ==
  /\ pc[t] = "unload_265"
  /\ Lock(t)
  /\ Goto(t, IF mode = "real" THEN "unload_270" ELSE "unload_280")
  /\ UNCHANGED <<mode, backend_ready, globals, loc, ret, heap>>

\* lines 270-273
UnloadFreeCtx(t) ==
  /\ pc[t] = "unload_270"
  /\ IF g_ctx # NULL
       THEN heap' = FreeCtx(heap, g_ctx) /\ g_ctx' = NULL
       ELSE UNCHANGED <<heap, g_ctx>>
  /\ Goto(t, "unload_274")
  /\ UNCHANGED <<mode, backend_ready, g_model, g_model_loaded, g_cancel_generation,
                 g_mutex, loc, ret>>

\* UnloadFreeModel leaving the released handle in g_model.
UnloadFreeModelKeepsPointer(t) ==
  /\ pc[t] = "unload_274"
  /\ IF g_model # NULL
       THEN heap' = FreeModel(heap, g_model)
       ELSE UNCHANGED heap
  /\ Goto(t, "unload_280")
  /\ UNCHANGED <<mode, backend_ready, g_model, g_ctx, g_model_loaded,
                 g_cancel_generation, g_mutex, loc, ret>>

\* lines 274-277
UnloadFreeModel(t) ==
  /\ pc[t] = "unload_274"
  /\ IF g_model # NULL
       THEN heap' = FreeModel(heap, g_model) /\ g_model' = NULL
       ELSE UNCHANGED <<heap, g_model>>
  /\ Goto(t, "unload_280")
  /\ UNCHANGED <<mode, backend_ready, g_ctx, g_model_loaded, g_cancel_generation,
                 g_mutex, loc, ret>>

\* lines 280-282: g_model_loaded = false; return (to the host, or to
\* nativeFree at line 308 when nativeFree made the call).
UnloadDone(t) ==
  /\ pc[t] = "unload_280"
  /\ g_model_loaded' = FALSE
  /\ Unlock(t)
  /\ IF loc[t].inFree
       THEN Goto(t, "free_308") /\ UNCHANGED <<ret, loc>>
       ELSE Return(t, VoidRet)
  /\ UNCHANGED <<mode, backend_ready, g_model, g_ctx, g_cancel_generation, heap>>

\* ------------------------------------------------------------ nativeFree
\* lines 303-307: the real build calls nativeUnloadModel; the stub build
\* only logs and returns.
CallFree(t) ==
  /\ Begin(t, IF mode = "real" THEN "unload_265" ELSE "free_311",
              [LocInit EXCEPT !.op = "free", !.inFree = TRUE])
  /\ UNCHANGED <<mode, backend_ready, globals, g_mutex, heap>>

\* line 308: llama_backend_free(), after the unload has returned; line 311.
FreeBackend(t) ==
  /\ pc[t] \in {"free_308", "free_311"}
  /\ backend_ready' = IF pc[t] = "free_308" THEN FALSE ELSE backend_ready
  /\ Return(t, VoidRet)
  /\ UNCHANGED <<mode, globals, g_mutex, heap>>

\* -------------------------------------------------- nativeCancelGeneration
CallCancel(t) == /\ Begin(t, "cancel_253", [LocInit EXCEPT !.op = "cancel"])
                 /\ UNCHANGED <<mode, backend_ready, globals, g_mutex, heap>>

\* Threads inside nativeGenerate's critical section.
GenLines == {"gen_149", "gen_157", "gen_160", "gen_168", "gen_179", "gen_199",
             "gen_201", "gen_217", "gen_229", "gen_233", "gen_239"}
InGenerate(t) == pc[t] \in GenLines
\* Lines of nativeGenerate after the store of line 157.
PostResetLines == GenLines \ {"gen_149", "gen_157"}

\* CancelWrite taking g_mutex like the other entry points.
CancelWriteLocked(t) ==
  /\ pc[t] = "cancel_253"
  /\ g_mutex = 0
  /\ g_cancel_generation' = IF mode = "real" THEN TRUE ELSE g_cancel_generation
  /\ Return(t, VoidRet)
  /\ UNCHANGED <<mode, backend_ready, g_model, g_ctx, g_model_loaded, g_mutex, heap>>

\* line 253: g_cancel_generation = true (real build only); no mutex.
CancelWrite(t) ==
  /\ pc[t] = "cancel_253"
  /\ g_cancel_generation' = IF mode = "real" THEN TRUE ELSE g_cancel_generation
  /\ loc' = [g \in Threads |->
               IF g = t THEN LocInit
               ELSE IF mode = "real" /\ InGenerate(g)
                 THEN [loc[g] EXCEPT
                         !.postCancel = IF @ = -1 THEN 0 ELSE @,
                         !.lateCancel = @ \/ pc[g] \in PostResetLines]
                 ELSE loc[g]]
  /\ pc' = [pc EXCEPT ![t] = "idle"]
  /\ ret' = [ret EXCEPT ![t] = VoidRet]
  /\ UNCHANGED <<mode, backend_ready, g_model, g_ctx, g_model_loaded, g_mutex, heap>>

\* -------------------------------------------------------- nativeGenerate
\* maxTokens values the host passes; temperature is accepted and never read.
MaxTokenArgs == -1..MaxTokens

CallGenerate(t) ==
  /\ Begin(t, "gen_147", [LocInit EXCEPT !.op = "generate"])
  /\ UNCHANGED <<mode, backend_ready, globals, g_mutex, heap>>

\* line 147
GenLock(t) ==
  /\ pc[t] = "gen_147"
  /\ Lock(t)
  /\ Goto(t, "gen_149")
  /\ UNCHANGED <<mode, backend_ready, globals, loc, ret, heap>>

\* GenCheckLoaded with the flag reset of line 157 hoisted above the check.
GenCheckLoadedResetFirst(t) ==
  /\ pc[t] = "gen_149"
  /\ g_cancel_generation' = FALSE
  /\ IF ~g_model_loaded
       THEN Return(t, StrRet(ErrNotLoaded)) /\ Unlock(t)
       ELSE /\ loc' = [loc EXCEPT ![t].chars = "held"]
            /\ Goto(t, "gen_157") /\ UNCHANGED <<ret, g_mutex>>
  /\ UNCHANGED <<mode, backend_ready, g_model, g_ctx, g_model_loaded, heap>>

\* lines 149-155: if (!g_model_loaded) return "[Error: Model not loaded]";
\* else copy the prompt.
GenCheckLoaded(t) ==
  /\ pc[t] = "gen_149"
  /\ IF ~g_model_loaded
       THEN Return(t, StrRet(ErrNotLoaded)) /\ Unlock(t)
       ELSE /\ loc' = [loc EXCEPT ![t].chars = "held"]
            /\ Goto(t, "gen_157") /\ UNCHANGED <<ret, g_mutex>>
  /\ UNCHANGED <<mode, backend_ready, globals, heap>>

\* GenResetCancel without the store of line 157.
GenResetCancelSkipped(t) ==
  /\ pc[t] = "gen_157"
  /\ Goto(t, IF mode = "real" THEN "gen_160" ELSE "gen_233")
  /\ UNCHANGED <<mode, backend_ready, globals, g_mutex, loc, ret, heap>>

\* line 157: g_cancel_generation = false; the stub build continues at 233.
GenResetCancel(t) ==
  /\ pc[t] = "gen_157"
  /\ g_cancel_generation' = FALSE
  /\ Goto(t, IF mode = "real" THEN "gen_160" ELSE "gen_233")
  /\ UNCHANGED <<mode, backend_ready, g_model, g_ctx, g_model_loaded, g_mutex,
                 loc, ret, heap>>

\* lines 160-165
GenCheckHandles(t) ==
  /\ pc[t] = "gen_160"
  /\ IF g_ctx = NULL \/ g_model = NULL
       THEN ReturnReleased(t, StrRet(ErrNotInitialized)) /\ Unlock(t)
       ELSE Goto(t, "gen_168") /\ UNCHANGED <<ret, g_mutex, loc>>
  /\ UNCHANGED <<mode, backend_ready, globals, heap>>

\* Token counts llama_tokenize can report for a prompt: negative on failure,
\* else at most the buffer size strlen(prompt) + 1 (the small counts, and one
\* more than the batch has room for).
TokenCounts(p) ==
  {-1} \cup {n \in (0..MaxPrompt) \cup {BatchCapacity + 1} :
              n <= Len(GetStringUTFChars(p)) + 1}

\* lines 183-186: the batch slots the prompt loop fills for n_tokens tokens,
\* and the slot whose logits flag line 186 sets.
PrefillSlots(n_tokens) == 0..(n_tokens - 1)
LogitsSlot(n_tokens)   == n_tokens - 1
\* All of them are slots the batch of line 182 has.
PrefillInBatch(n_tokens) ==
  PrefillSlots(n_tokens) \cup {LogitsSlot(n_tokens)} \subseteq 0..(BatchCapacity - 1)

\* GenTokenize returning the sentinel without releasing the prompt.
GenTokenizeLeak(t) ==
  /\ pc[t] = "gen_168"
  /\ \E p \in Prompts : \E n \in TokenCounts(p) :
       IF n < 0
         THEN Return(t, StrRet(ErrTokenization)) /\ Unlock(t)
         ELSE /\ loc' = [loc EXCEPT ![t].n_cur = n]
              /\ Goto(t, "gen_179") /\ UNCHANGED <<ret, g_mutex>>
  /\ UNCHANGED <<mode, backend_ready, globals, heap>>

\* lines 168-176: tokenize; on failure release the prompt and return
\* "[Error: Tokenization failed]".
GenTokenize(t) ==
  /\ pc[t] = "gen_168"
  /\ \E p \in Prompts : \E n \in TokenCounts(p) :
       IF n < 0
         THEN ReturnReleased(t, StrRet(ErrTokenization)) /\ Unlock(t)
         ELSE /\ loc' = [loc EXCEPT ![t].n_cur = n]
              /\ Goto(t, "gen_179") /\ UNCHANGED <<ret, g_mutex>>
  /\ UNCHANGED <<mode, backend_ready, globals, heap>>

\* lines 179-197: clear the KV cache, build and decode the prompt batch; on
\* failure free the batch, release the prompt and return "[Error: Decoding
\* failed]"; else
\* n_cur = batch.n_tokens (the token count, held in n_cur since line 176),
\* n_gen = 0.  A store outside the batch (index -1 for a token count of 0,
\* index 512 and up for more than 512 tokens) is undefined behaviour: the
\* run goes on as if nothing had happened, or the process dies.
GenPrefill(t) ==
  /\ pc[t] = "gen_179"
  /\ \/ /\ ~PrefillInBatch(loc[t].n_cur)
        /\ Die(t, "gen_fault")
        /\ UNCHANGED <<loc, ret, g_mutex>>
     \/ /\ Leave(t, StrRet(ErrDecoding), Release(loc[t].chars), Release("held"))
        /\ Unlock(t)
     \/ \E m \in MaxTokenArgs :
          /\ loc' = [loc EXCEPT ![t].n_gen = 0, ![t].maxTokens = m, ![t].batch = "held"]
          /\ Goto(t, "gen_199") /\ UNCHANGED <<ret, g_mutex>>
  /\ UNCHANGED <<mode, backend_ready, globals, heap>>

\* LoopCond with an off-by-one comparison.
LoopCondOffByOne(n_gen, maxTokens, cancel) == n_gen <= maxTokens /\ ~cancel

\* The loop condition of line 199.
LoopCond(n_gen, maxTokens, cancel) == n_gen < maxTokens /\ ~cancel

\* line 199: while (n_gen < maxTokens && !g_cancel_generation)
GenLoopTest(t) ==
  /\ pc[t] = "gen_199"
  /\ IF LoopCond(loc[t].n_gen, loc[t].maxTokens, g_cancel_generation)
       THEN Goto(t, "gen_201") /\ UNCHANGED loc
       ELSE /\ Goto(t, "gen_229")
            /\ loc' = [loc EXCEPT ![t].exit =
                         IF loc[t].n_gen < loc[t].maxTokens THEN "cancel" ELSE "max"]
  /\ UNCHANGED <<mode, backend_ready, globals, g_mutex, ret, heap>>

\* result.append(buf, n) at line 213
AppendPiece(result, piece) == result \o piece

\* lines 201-214: sample greedily; break on the end-of-generation token;
\* n = llama_token_to_piece(...); if (n > 0) result.append(buf, n).
GenSample(t) ==
  /\ pc[t] = "gen_201"
  /\ \E tok \in Tokens :
       IF llama_token_is_eog(tok)
         THEN /\ loc' = [loc EXCEPT ![t].exit = "eog"]
              /\ Goto(t, "gen_229")
         ELSE LET piece == llama_token_to_piece(tok) IN
              /\ loc' = [loc EXCEPT
                   ![t].result = IF Len(piece) > 0 THEN AppendPiece(@, piece) ELSE @,
                   ![t].sampled = @ \o <<tok>>,
                   ![t].postCancel = IF Len(piece) > 0 /\ @ >= 0 THEN @ + 1 ELSE @]
              /\ Goto(t, "gen_217")
  /\ UNCHANGED <<mode, backend_ready, globals, g_mutex, ret, heap>>

\* lines 217-226: decode the new token; break on failure, else n_cur++, n_gen++.
GenDecode(t) ==
  /\ pc[t] = "gen_217"
  /\ \/ /\ loc' = [loc EXCEPT ![t].exit = "decode"]
        /\ Goto(t, "gen_229")
     \/ /\ loc' = [loc EXCEPT ![t].n_cur = @ + 1, ![t].n_gen = @ + 1]
        /\ Goto(t, "gen_199")
  /\ UNCHANGED <<mode, backend_ready, globals, g_mutex, ret, heap>>

\* GenReturn reporting a cancelled generation as an error.
GenReturnCancelIsError(t) ==
  /\ pc[t] \in {"gen_229", "gen_239"}
  /\ Leave(t, StrRet(IF g_cancel_generation THEN ErrDecoding ELSE loc[t].result),
           Release(loc[t].chars),
           IF pc[t] = "gen_229" THEN Release(loc[t].batch) ELSE loc[t].batch)
  /\ Unlock(t)
  /\ UNCHANGED <<mode, backend_ready, globals, heap>>

\* lines 229-240: free the batch (real build), release the prompt, return
\* result.
GenReturn(t) ==
  /\ pc[t] \in {"gen_229", "gen_239"}
  /\ Leave(t, StrRet(loc[t].result),
           Release(loc[t].chars),
           IF pc[t] = "gen_229" THEN Release(loc[t].batch) ELSE loc[t].batch)
  /\ Unlock(t)
  /\ UNCHANGED <<mode, backend_ready, globals, heap>>

\* lines 233-236 (stub build): result = "[Stub Response] ..." +
\* std::string(prompt_cstr).substr(0, 50) + "..."
GenStub(t) ==
  /\ pc[t] = "gen_233"
  /\ \E p \in Prompts :
       loc' = [loc EXCEPT
                 ![t].prompt = p,
                 ![t].result = StubPrefix \o Substr50(GetStringUTFChars(p)) \o StubSuffix]
  /\ Goto(t, "gen_239")
  /\ UNCHANGED <<mode, backend_ready, globals, g_mutex, ret, heap>>

\* ------------------------------------------------------ nativeIsModelLoaded
\* line 292: return g_model_loaded ? JNI_TRUE : JNI_FALSE (no mutex)
IsModelLoaded == g_model_loaded

\* ------------------------------------------------------ nativeGetModelInfo
\* No mutex anywhere in this function: g_model and g_ctx are read while load,
\* unload or free may be writing them and releasing what they point to.
InfoLines == {"info_323", "info_327", "info_328", "info_328_call", "info_336"}

CallInfo(t) ==
  /\ Begin(t, IF mode = "real" THEN "info_323" ELSE "info_336",
              [LocInit EXCEPT !.op = "info"])
  /\ UNCHANGED <<mode, backend_ready, globals, g_mutex, heap>>

\* lines 323-325: if (g_model == nullptr) return "{}"
InfoCheckModel(t) ==
  /\ pc[t] = "info_323"
  /\ IF g_model = NULL
       THEN Return(t, StrRet(InfoEmpty))
       ELSE /\ loc' = [loc EXCEPT ![t].m = g_model]
            /\ Goto(t, "info_327") /\ UNCHANGED ret
  /\ UNCHANGED <<mode, backend_ready, globals, g_mutex, heap>>

\* line 327: n_vocab = llama_n_vocab(g_model).  The handle passed is the one
\* line 323 read or, if the build loads g_model again, its present value.
\* Passing a released or null handle is undefined behaviour: the process
\* dies, or the call returns whatever the memory holds.
InfoVocab(t) ==
  /\ pc[t] = "info_327"
  /\ \E h \in {loc[t].m, g_model} :
       IF h \in heap.models
         THEN /\ loc' = [loc EXCEPT ![t].n_vocab = ToString(llama_n_vocab(h))]
              /\ Goto(t, "info_328")
         ELSE \/ /\ loc' = [loc EXCEPT ![t].n_vocab = Garbage]
                 /\ Goto(t, "info_328")
              \/ Die(t, "info_fault") /\ UNCHANGED loc
  /\ UNCHANGED <<mode, backend_ready, globals, g_mutex, ret, heap>>

\* line 328, the test: g_ctx != nullptr ? ... : 0; with no context, lines
\* 330-334 format the object and return it.
InfoCheckCtx(t) ==
  /\ pc[t] = "info_328"
  /\ IF g_ctx = NULL
       THEN Return(t, StrRet(InfoObject(loc[t].n_vocab, ToString(0))))
       ELSE /\ loc' = [loc EXCEPT ![t].c = g_ctx]
            /\ Goto(t, "info_328_call") /\ UNCHANGED ret
  /\ UNCHANGED <<mode, backend_ready, globals, g_mutex, heap>>

\* line 328, the call: n_ctx = llama_n_ctx(g_ctx), on the handle the test
\* read or on the present value of g_ctx; lines 330-334 format and return.
InfoCtx(t) ==
  /\ pc[t] = "info_328_call"
  /\ \E h \in {loc[t].c, g_ctx} :
       IF h \in {x.id : x \in heap.ctxs}
         THEN LET x == CHOOSE x \in heap.ctxs : x.id = h IN
              Return(t, StrRet(InfoObject(loc[t].n_vocab, ToString(x.params.n_ctx))))
         ELSE \/ Return(t, StrRet(InfoObject(loc[t].n_vocab, Garbage)))
              \/ Die(t, "info_fault") /\ UNCHANGED <<loc, ret>>
  /\ UNCHANGED <<mode, backend_ready, globals, g_mutex, heap>>

\* line 336 (stub build)
InfoStubReturn(t) ==
  /\ pc[t] = "info_336"
  /\ Return(t, StrRet(InfoStub))
  /\ UNCHANGED <<mode, backend_ready, globals, g_mutex, heap>>

\* -------------------------------------------------------------------- Spec
Next ==
  \E t \in Threads :
    \/ CallInit(t) \/ InitBackend(t)
    \/ CallLoad(t) \/ LoadLock(t) \/ LoadFreeCtx(t) \/ LoadFreeModel(t)
    \/ LoadModel(t) \/ LoadCtx(t) \/ LoadDone(t)
    \/ CallUnload(t) \/ UnloadLock(t) \/ UnloadFreeCtx(t) \/ UnloadFreeModel(t)
    \/ UnloadDone(t)
    \/ CallFree(t) \/ FreeBackend(t)
    \/ CallCancel(t) \/ CancelWrite(t)
    \/ CallGenerate(t) \/ GenLock(t) \/ GenCheckLoaded(t) \/ GenResetCancel(t)
    \/ GenCheckHandles(t) \/ GenTokenize(t) \/ GenPrefill(t) \/ GenLoopTest(t)
    \/ GenSample(t) \/ GenDecode(t) \/ GenReturn(t) \/ GenStub(t)
    \/ CallInfo(t) \/ InfoCheckModel(t) \/ InfoVocab(t) \/ InfoCheckCtx(t)
    \/ InfoCtx(t) \/ InfoStubReturn(t)

Spec == Init /\ [][Next]_vars

\* ------------------------------------------------------------ vocabulary
\* Lines at which a thread owns g_mutex.
LoadLines   == {"load_83", "load_87", "load_97", "load_105", "load_120", "load_123"}
UnloadLines == {"unload_270", "unload_274", "unload_280"}
InCritical(t) == pc[t] \in LoadLines \cup UnloadLines \cup GenLines

Max(a, b) == IF a >= b THEN a ELSE b

IsPrefix(s, u) == Len(s) <= Len(u) /\ s = SubSeq(u, 1, Len(s))

\* The pieces of a token sequence, concatenated.
RECURSIVE ConcatPieces(_)
ConcatPieces(toks) ==
  IF toks = <<>> THEN <<>>
  ELSE llama_token_to_piece(Head(toks)) \o ConcatPieces(Tail(toks))

\* The session's handles as sets.
StoredModels == {g_model} \ {NULL}
StoredCtxs   == {g_ctx} \ {NULL}
LiveCtxIds   == {c.id : c \in heap.ctxs}

\* Thread t returns from its call in this step.
Returns(t) == pc[t] # "idle" /\ pc'[t] = "idle"
\* Thread t takes this step (it moves, and not by dying with the process).
Steps(t)   == pc'[t] \notin {pc[t], "killed"}

\* ------------------------------------------------------------------ C1
\* C1 (I2): in the real build, whenever g_mutex is free, g_model_loaded is
\* true exactly when both g_model and g_ctx are present.
C1_LoadedIffHandles ==
  (mode = "real" /\ g_mutex = 0) =>
    (g_model_loaded <=> (g_model # NULL /\ g_ctx # NULL))

\* ------------------------------------------------------------------ C2
\* C2 (I5): whenever a real-build load returns JNI_FALSE, at that moment
\* g_model and g_ctx are absent and is_loaded reports false.
C2_LoadFailureLeavesNoModel ==
  [][\A t \in Threads :
       (mode = "real" /\ pc[t] \in LoadLines /\ Returns(t) /\ ret'[t] = BoolRet(FALSE))
         => (g_model' = NULL /\ g_ctx' = NULL /\ ~IsModelLoaded')]_vars

\* ------------------------------------------------------------------ C3
\* C3 (P2): a generate that finds g_model_loaded false returns exactly
\* "[Error: Model not loaded]", and no step of that call (taking the mutex,
\* the check, the return) changes g_model, g_ctx, g_model_loaded,
\* g_cancel_generation, the backend or the library's objects.
C3_NotLoadedIsNoOp ==
  [][\A t \in Threads :
       /\ (pc[t] = "gen_147" /\ Steps(t))
            => UNCHANGED <<globals, backend_ready, heap>>
       /\ (pc[t] = "gen_149" /\ ~g_model_loaded /\ Steps(t))
            => /\ Returns(t)
               /\ ret'[t] = StrRet(ErrNotLoaded)
               /\ UNCHANGED <<globals, backend_ready, heap>>]_vars

\* A generate has returned the sentinel while a cancel written before it is
\* still standing.
C3_Witness ==
  \E t \in Threads :
    pc[t] = "idle" /\ ret[t] = StrRet(ErrNotLoaded) /\ g_cancel_generation

\* ------------------------------------------------------------------ C4
\* C4 (P5): once a cancel has been written after a generate took the mutex,
\* that generate appends at most one more token piece.
C4_CancelWithinOneStep ==
  \A t \in Threads : (mode = "real" /\ InGenerate(t)) => loc[t].postCancel <= 1

\* ------------------------------------------------------------------ C5
\* C5 (P1): at most one thread is inside a critical section, and while the
\* process lives it is the owner of g_mutex; while a generate
\* is between taking the mutex and returning, no step releases or replaces a
\* handle or changes g_model_loaded.
C5_AtMostOneInCritical ==
  /\ \A t1, t2 \in Threads : (InCritical(t1) /\ InCritical(t2)) => t1 = t2
  /\ ~Faulted => \A t \in Threads : InCritical(t) <=> g_mutex = t

C5_Serialized ==
  /\ []C5_AtMostOneInCritical
  /\ [][(\E g \in Threads : InGenerate(g))
          => UNCHANGED <<g_model, g_ctx, g_model_loaded, heap>>]_vars

\* A generate is in its loop on live handles while another thread has issued
\* an unload and waits for the mutex.
C5_Witness ==
  \E g, u \in Threads :
    /\ pc[g] = "gen_201" /\ pc[u] = "unload_265"
    /\ g_model \in heap.models /\ g_ctx \in LiveCtxIds

\* ------------------------------------------------------------------ C6
\* C6: at the step where nativeFree releases the backend, no model or
\* context handle exists.
C6_NoHandleOutlivesBackend ==
  [][\A t \in Threads :
       (mode = "real" /\ pc[t] = "free_308" /\ Returns(t))
         => (g_model' = NULL /\ g_ctx' = NULL /\ heap'.models = {} /\ heap'.ctxs = {})]_vars

\* ------------------------------------------------------------------ C7
\* C7 (P7): what generate returns from its loop is the concatenation of the
\* pieces of at most max(maxTokens, 0) tokens, whichever way the loop was
\* left; with maxTokens <= 0 it is empty.
C7_AtMostMaxTokens ==
  [][\A t \in Threads :
       (pc[t] = "gen_229" /\ Returns(t))
         => /\ Len(loc[t].sampled) <= Max(loc[t].maxTokens, 0)
            /\ ret'[t] = StrRet(ConcatPieces(loc[t].sampled))
            /\ (loc[t].maxTokens <= 0 => ret'[t].text = <<>>)]_vars

\* The loop was left by a decode failure after the last allowed token's piece
\* had been appended.
C7_Witness ==
  \E t \in Threads :
    /\ pc[t] = "gen_229" /\ loc[t].exit = "decode"
    /\ loc[t].maxTokens = MaxTokens
    /\ Len(loc[t].sampled) = MaxTokens /\ Len(loc[t].result) = MaxTokens

\* ------------------------------------------------------------------ C8
\* C8 (I4): cancel can always take its step, whoever owns the mutex, and the
\* step sets g_cancel_generation (real build) and leaves g_model, g_ctx,
\* g_model_loaded and the mutex alone.
C8_CancelNeverWaits ==
  /\ [](\A t \in Threads : pc[t] = "cancel_253" => ENABLED CancelWrite(t))
  /\ [][\A t \in Threads :
          (pc[t] = "cancel_253" /\ Returns(t))
            => /\ (mode = "real" => g_cancel_generation')
               /\ UNCHANGED <<g_model, g_ctx, g_model_loaded, g_mutex, heap>>]_vars

\* A cancel is about to write while a generate owns the mutex in its loop.
C8_Witness ==
  \E c, g \in Threads :
    pc[c] = "cancel_253" /\ pc[g] = "gen_217" /\ g_mutex = g /\ ~g_cancel_generation

\* ------------------------------------------------------------------ C9
\* The output of the loop of lines 199-227 when no cancel arrives: greedy[i]
\* is the i-th sampled token, the decode of iteration failAt fails (0: none).
RECURSIVE RunOutput(_, _, _, _, _)
RunOutput(greedy, maxTokens, failAt, n_gen, result) ==
  IF ~(n_gen < maxTokens) THEN result
  ELSE LET tok == greedy[n_gen + 1]
           out == result \o llama_token_to_piece(tok)
       IN IF llama_token_is_eog(tok) THEN result
          ELSE IF failAt = n_gen + 1 THEN out
          ELSE RunOutput(greedy, maxTokens, failAt, n_gen + 1, out)

\* The uncancelled runs a cancelled generate could have been: the same tokens
\* so far, any tokens after, no decode failure before iteration k + 1.
Continuations(sampled) ==
  {g \in [1..MaxTokens -> Tokens] : \A i \in 1..Len(sampled) : g[i] = sampled[i]}

CancelledAfter(t) == pc[t] = "gen_229" /\ loc[t].exit = "cancel" /\ Returns(t)

ReturnsPrefix(t) ==
  \A g \in Continuations(loc[t].sampled) :
    \A f \in {0} \cup ((loc[t].n_gen + 1)..MaxTokens) :
      IsPrefix(ret'[t].text, RunOutput(g, loc[t].maxTokens, f, 0, <<>>))

\* C9 (P6) as stated: a generate that observes the cancel after k tokens
\* returns a non-empty prefix of the uncancelled output, never a sentinel.
C9_NonEmptyPrefix ==
  [][\A t \in Threads :
       CancelledAfter(t)
         => /\ ret'[t].text # <<>>
            /\ ReturnsPrefix(t)
            /\ ret'[t].text \notin ErrorSentinels]_vars

\* C9 amended: a generate that observes the cancel after k tokens returns the
\* pieces of those k tokens, a prefix of the uncancelled output that is empty
\* only when none of the k tokens has a non-empty piece (k = 0 included), and
\* never a sentinel.
C9_PrefixOfUncancelled ==
  [][\A t \in Threads :
       CancelledAfter(t)
         => /\ Len(loc[t].sampled) = loc[t].n_gen
            /\ ReturnsPrefix(t)
            /\ (ret'[t].text = <<>>
                  <=> \A i \in 1..loc[t].n_gen :
                        llama_token_to_piece(loc[t].sampled[i]) = <<>>)
            /\ ret'[t].text \notin ErrorSentinels]_vars

\* A cancel was observed after one token was emitted, with one more allowed.
C9_Witness ==
  \E t \in Threads :
    /\ pc[t] = "gen_229" /\ loc[t].exit = "cancel"
    /\ loc[t].n_gen = 1 /\ loc[t].maxTokens = 2 /\ loc[t].result = <<"b">>

\* ----------------------------------------------------------------- C10
\* C10 (P3): whenever g_mutex is free, the models and contexts constructed
\* and not yet released are exactly those stored in g_model and g_ctx; and a
\* context never outlives the model it was built from.
C10_NoLeak ==
  /\ g_mutex = 0 => (heap.models = StoredModels /\ LiveCtxIds = StoredCtxs)
  /\ \A c \in heap.ctxs : c.model \in heap.models

\* Two loads have succeeded and only the second one's handles exist.
C10_Witness ==
  /\ g_mutex = 0 /\ g_model = 3 /\ g_ctx = 4
  /\ heap.models = {3} /\ LiveCtxIds = {4}

\* ----------------------------------------------------------------- C11
\* Nothing is loaded: no handle is stored and is_loaded reports false.
NothingLoaded == g_model = NULL /\ g_ctx = NULL /\ ~IsModelLoaded

C16_CtxOnlyWithModel ==
  /\ [](mode = "real" =>
          /\ g_ctx # NULL => g_model # NULL
          /\ \A c \in heap.ctxs : c.model \in heap.models /\ (c.id = g_ctx => c.model = g_model))
  /\ [][\A m \in heap.models \ heap'.models :
          \A c \in heap.ctxs : c.model # m]_vars

\* Inside an unload: the context has been released, its model not yet.
C16_Witness ==
  \E t \in Threads :
    /\ mode = "real" /\ pc[t] = "unload_274"
    /\ g_ctx = NULL /\ g_model # NULL /\ g_model \in heap.models /\ heap.ctxs = {}

\* ----------------------------------------------------------------- C14
\* C14: in the real build, after a generate's reset of line 157 the flag is
\* set only if a cancel was written after that reset: at the first test of
\* the loop condition (and at every later line of the call) a cancel issued
\* before the call, or while it waited for the mutex, or before its reset,
\* is no longer standing, and a generate that left its loop because of the
\* flag had a cancel written after its reset.
C14_CancelSingleShot ==
  \A t \in Threads :
    (mode = "real" /\ pc[t] \in PostResetLines)
      => /\ g_cancel_generation => loc[t].lateCancel
         /\ loc[t].exit = "cancel" => loc[t].lateCancel

\* A cancel was written while the generate held the mutex but before its
\* reset; the generate has entered its loop all the same.
C14_Witness ==
  \E t \in Threads :
    /\ mode = "real" /\ pc[t] = "gen_201" /\ loc[t].n_gen = 0
    /\ loc[t].postCancel = 0 /\ ~loc[t].lateCancel /\ ~g_cancel_generation

\* ----------------------------------------------------------------- C15
\* C15: every context a load builds was given a window of nCtx when nCtx is
\* positive and of 2048 otherwise, and a generation and a batch thread count
\* that are both nThreads when nThreads is positive and both 4 otherwise.
C15_LoadDefaults ==
  \A c \in heap.ctxs :
    LET nCtx == c.args[1]  nThreads == c.args[2] IN
    /\ (nCtx > 0  => c.params.n_ctx = nCtx) /\ (nCtx <= 0 => c.params.n_ctx = DefaultCtx)
    /\ (nThreads > 0  => c.params.n_threads = nThreads)
    /\ (nThreads <= 0 => c.params.n_threads = DefaultThreads)
    /\ c.params.n_threads_batch = c.params.n_threads

\* Two loads have returned true; the later one, called with positive
\* arguments, built the stored context with them.
C15_Witness ==
  /\ \E c \in heap.ctxs : c.args = <<1024, 2>> /\ c.params.n_ctx = 1024 /\ c.id = 4
  /\ g_ctx = 4 /\ ret[1] = BoolRet(TRUE) /\ ret[2] = BoolRet(TRUE)

\* ----------------------------------------------------------------- C12
\* The first n elements of s.
Take(s, n) == [i \in 1..(IF Len(s) < n THEN Len(s) ELSE n) |-> s[i]]

\* C12 as stated: in the stub build every generate, in whatever state it is
\* called, returns StubPrefix, the first 50 characters of its prompt, "...".
C12_StubEchoAlways ==
  [][\A t \in Threads :
       (mode = "stub" /\ InGenerate(t) /\ Returns(t))
         => /\ pc[t] = "gen_239"
            /\ ret'[t].text = StubPrefix
                                \o GetStringUTFChars(Take(loc[t].prompt, StubPromptChars))
                                \o StubSuffix]_vars

\* C12 amended: in the stub build a generate that finds g_model_loaded true
\* goes on to return StubPrefix, the first 50 bytes of its prompt's UTF-8
\* encoding, "..."; one that finds it false returns "[Error: Model not
\* loaded]"; there is no other return.
C12_StubEchoWhenLoaded ==
  [][\A t \in Threads :
       (mode = "stub" /\ InGenerate(t) /\ Steps(t))
         => /\ (pc[t] = "gen_149" /\ g_model_loaded) => pc'[t] = "gen_157"
            /\ pc[t] = "gen_157" => pc'[t] = "gen_233"
            /\ pc[t] = "gen_233" => pc'[t] = "gen_239"
            /\ Returns(t) =>
                 IF pc[t] = "gen_149"
                   THEN ~g_model_loaded /\ ret'[t].text = ErrNotLoaded
                   ELSE /\ pc[t] = "gen_239"
                        /\ ret'[t].text = StubPrefix
                             \o Take(GetStringUTFChars(loc[t].prompt), StubPromptChars)
                             \o StubSuffix]_vars

\* A stub generate is about to return the echo of a prompt whose 26
\* characters take 52 bytes: 50 bytes of it, between prefix and suffix.
C12_Witness ==
  \E t \in Threads :
    /\ mode = "stub" /\ pc[t] = "gen_239" /\ loc[t].prompt = WidePrompt
    /\ Len(loc[t].result) = StubPromptChars + 2

\* ----------------------------------------------------------------- C18
Settled == {"none", "released"}

\* Thread t's last call was a generate that has returned.
GenerateReturned(t) ==
  /\ pc[t] = "idle" /\ ret[t].kind = "string"
  /\ ret[t].text \notin {InfoEmpty, InfoStub} /\ Len(ret[t].text) # Len(InfoObject("", ""))

\* C18: a call never releases its string copy or its batch twice, nor one it
\* does not hold, and once load or generate has returned neither is
\* outstanding: the copy is released exactly when the call got past the
\* point of acquiring it (every return of load; every return of generate
\* but the not-loaded one), the batch exactly when generate built one (the
\* decoding-failed return and the normal return of the real build).
C18_ReleasedOnce ==
  \A t \in Threads :
    /\ loc[t].chars \in {"none", "held", "released"}
    /\ loc[t].batch \in {"none", "held", "released"}
    /\ pc[t] = "idle" =>
         /\ loc[t].chars \in Settled /\ loc[t].batch \in Settled
         /\ GenerateReturned(t) =>
              /\ loc[t].chars = "released" <=> ret[t].text # ErrNotLoaded
              /\ loc[t].batch = "released" <=>
                   (mode = "real" /\ ret[t].text \notin ErrorSentinels \ {ErrDecoding})

\* A generate has returned after a failed prompt decode, its batch freed and
\* its prompt released; a load has returned after a failed model load, its
\* path released.
C18_Witness ==
  \E t, u \in Threads :
    /\ pc[t] = "idle" /\ ret[t] = StrRet(ErrDecoding)
    /\ loc[t].chars = "released" /\ loc[t].batch = "released"
    /\ pc[u] = "idle" /\ ret[u] = BoolRet(FALSE) /\ loc[u].chars = "released"

\* ----------------------------------------------------------------- C19
\* C19: whenever generate is about to build the prompt batch, for the token
\* count n tokenization reported, every slot the prompt loop fills and the
\* slot n - 1 whose logits it requests are slots of the batch (n >= 1 and
\* every index below 512).
C19_PrefillWithinBatch ==
  \A t \in Threads :
    pc[t] = "gen_179" =>
      /\ loc[t].n_cur >= 1
      /\ \A i \in 0..(loc[t].n_cur - 1) : i < BatchCapacity

\* ----------------------------------------------------------------- C13
\* C13: in the real build, a get_model_info returns the object with
\* "loaded":true when is_loaded reports true at that moment, and "{}" when
\* it reports false.
C13_InfoAgreesWithIsLoaded ==
  [][\A t \in Threads :
       (mode = "real" /\ pc[t] \in InfoLines /\ Returns(t))
         => IF IsModelLoaded
              THEN ret'[t].text # InfoEmpty /\ ret'[t].text[5] = ",\"loaded\":true}"
              ELSE ret'[t].text = InfoEmpty]_vars

\* ----------------------------------------------------------------- C20
\* C20: whenever get_model_info is about to pass a handle to the library,
\* the handle it read and the handle g_model (g_ctx) holds now, whichever
\* the call uses, is a live object.
C20_InfoUsesLiveHandles ==
  \A t \in Threads :
    /\ pc[t] = "info_327" => {loc[t].m, g_model} \subseteq heap.models
    /\ pc[t] = "info_328_call" => {loc[t].c, g_ctx} \subseteq LiveCtxIds

\* ----------------------------------------------------------------- C17
\* The next step of thread t's generate, whichever line it is at.
GenProgress(t) ==
  \/ GenCheckLoaded(t) \/ GenResetCancel(t) \/ GenCheckHandles(t) \/ GenTokenize(t)
  \/ GenPrefill(t) \/ GenLoopTest(t) \/ GenSample(t) \/ GenDecode(t)
  \/ GenReturn(t) \/ GenStub(t)

\* Thread t has taken the mutex in a generate and has not returned from it.
GenerateUnfinished(t) == pc[t] \in GenLines \cup {"gen_fault"}

\* C17: a generate that has taken the mutex and not yet returned can always
\* take its next step towards the return that releases the mutex (so that,
\* its steps completing, it returns and a load or unload waiting behind it
\* proceeds); its loop has run at most max(maxTokens, 0) times; and it
\* leaves the loop only for the token limit, a cancel, an end-of-generation
\* token or a failed decode.
C17_GenerateReturns ==
  \A t \in Threads :
    GenerateUnfinished(t) =>
      /\ ENABLED GenProgress(t)
      /\ g_mutex = t
      /\ loc[t].n_gen <= Max(loc[t].maxTokens, 0)
      /\ pc[t] = "gen_229" => loc[t].exit \in {"max", "cancel", "eog", "decode"}

====
